---- MODULE Spec2Model ----
(***************************************************************************)
(* Drive Command Splitter: the Streamlit session of app.py (upload,        *)
(* "Process Invoice", per-item checkbox pairs, totals and payment summary) *)
(* and the one-shot script main.py.                                        *)
(*                                                                         *)
(* Texts are sequences of one-character strings, so that str.strip,        *)
(* str.startswith, str.replace, str.endswith, slicing and json.loads act   *)
(* on characters as they do in Python.  Money is kept exact: prices are    *)
(* the integers the JSON text spells, and every amount that the code       *)
(* obtains by halving is carried doubled (suffix _x2).                      *)
(***************************************************************************)
EXTENDS Integers, Sequences, FiniteSets, TLC

VARIABLES
    key_identity,     \* whether a checkbox is identified by its key alone
    api_key,          \* os.getenv("OPENROUTER_API_KEY") of the server process
    uploaded_file,    \* whether st.file_uploader holds a file
    invoice_data,     \* st.session_state.invoice_data
    person1_items,    \* st.session_state.person1_items
    person2_items,    \* st.session_state.person2_items
    widgets,          \* the state of the checkboxes on the page, by widget identity
    screen,           \* what the latest run showed
    complete_calls,   \* the llm.complete calls of the latest run
    response,         \* the completion the latest run received
    main              \* the latest run of main.py


(***************************************************************************)
(* Python str operations used by extract_invoice_data                      *)
(***************************************************************************)
Whitespace == {" ", "\n", "\t", "\r"}

RECURSIVE LStrip(_)
LStrip(s) ==
    IF Len(s) > 0 /\ s[1] \in Whitespace THEN LStrip(Tail(s)) ELSE s

RECURSIVE RStrip(_)
RStrip(s) ==
    IF Len(s) > 0 /\ s[Len(s)] \in Whitespace
    THEN RStrip(SubSeq(s, 1, Len(s) - 1))
    ELSE s

\* str.strip()
Strip(s) == RStrip(LStrip(s))

\* str.startswith(p)
StartsWith(s, p) == Len(s) >= Len(p) /\ SubSeq(s, 1, Len(p)) = p

\* str.endswith(p)
EndsWith(s, p) == Len(s) >= Len(p) /\ SubSeq(s, Len(s) - Len(p) + 1, Len(s)) = p

\* str.find(p): the first index at which p occurs in s, 0 when it does not
RECURSIVE FindFrom(_, _, _)
FindFrom(s, p, i) ==
    IF i + Len(p) - 1 > Len(s) THEN 0
    ELSE IF SubSeq(s, i, i + Len(p) - 1) = p THEN i
    ELSE FindFrom(s, p, i + 1)

\* str.replace(old, new, 1): only the first occurrence is replaced
ReplaceFirst(s, old, new) ==
    LET i == FindFrom(s, old, 1)
    IN  IF i = 0 THEN s
        ELSE SubSeq(s, 1, i - 1) \o new \o SubSeq(s, i + Len(old), Len(s))

\* s[:-3]
DropLast3(s) == IF Len(s) <= 3 THEN << >> ELSE SubSeq(s, 1, Len(s) - 3)

(***************************************************************************)
(* json.loads on the JSON forms the model's responses use: objects,        *)
(* arrays, strings without escapes, non-negative integers and null.        *)
(* A Python value is [t |-> type, v |-> payload]; a dict is a function     *)
(* from keys (texts) to values, a list a sequence, None is PyNone.         *)
(***************************************************************************)
PyNone == [t |-> "NoneType", v |-> << >>]
PyStr(s) == [t |-> "str", v |-> s]
PyNum(n) == [t |-> "num", v |-> n]
PyList(q) == [t |-> "list", v |-> q]
PyDict(f) == [t |-> "dict", v |-> f]

Digits == {"0", "1", "2", "3", "4", "5", "6", "7", "8", "9"}

DigitVal(c) ==
    CASE c = "0" -> 0 [] c = "1" -> 1 [] c = "2" -> 2 [] c = "3" -> 3
      [] c = "4" -> 4 [] c = "5" -> 5 [] c = "6" -> 6 [] c = "7" -> 7
      [] c = "8" -> 8 [] c = "9" -> 9

JsonFail == [ok |-> FALSE, val |-> PyNone, next |-> 0]
JsonOk(val, next) == [ok |-> TRUE, val |-> val, next |-> next]

RECURSIVE SkipWs(_, _)
SkipWs(s, i) ==
    IF i <= Len(s) /\ s[i] \in Whitespace THEN SkipWs(s, i + 1) ELSE i

\* the index of the quote closing a string whose content starts at i; 0 when
\* the string is unterminated or holds a control character
RECURSIVE ClosingQuote(_, _)
ClosingQuote(s, i) ==
    IF i > Len(s) THEN 0
    ELSE IF s[i] = "\"" THEN i
    ELSE IF s[i] \in {"\n", "\t", "\r"} THEN 0
    ELSE ClosingQuote(s, i + 1)

ParseString(s, i) ==
    IF i > Len(s) \/ s[i] # "\"" THEN JsonFail
    ELSE LET j == ClosingQuote(s, i + 1)
         IN  IF j = 0 THEN JsonFail
             ELSE JsonOk(PyStr(SubSeq(s, i + 1, j - 1)), j + 1)

RECURSIVE ParseDigits(_, _, _)
ParseDigits(s, i, acc) ==
    IF i <= Len(s) /\ s[i] \in Digits
    THEN ParseDigits(s, i + 1, 10 * acc + DigitVal(s[i]))
    ELSE JsonOk(PyNum(acc), i)

\* an integer literal: 0, or a non-zero digit followed by digits
ParseNumber(s, i) ==
    IF s[i] = "0" THEN JsonOk(PyNum(0), i + 1) ELSE ParseDigits(s, i, 0)

RECURSIVE ParseValue(_, _)
RECURSIVE ParseMembers(_, _, _)
RECURSIVE ParseElements(_, _, _)

\* i is where a member's key must start; acc holds the members read so far
\* (a repeated key keeps its last value)
ParseMembers(s, i, acc) ==
    LET k == ParseString(s, i)
    IN  IF ~k.ok THEN JsonFail
        ELSE LET c == SkipWs(s, k.next)
             IN  IF c > Len(s) \/ s[c] # ":" THEN JsonFail
                 ELSE LET x == ParseValue(s, SkipWs(s, c + 1))
                      IN  IF ~x.ok THEN JsonFail
                          ELSE LET e == SkipWs(s, x.next)
                                   dict == (k.val.v :> x.val) @@ acc
                               IN  IF e > Len(s) THEN JsonFail
                                   ELSE IF s[e] = "}" THEN JsonOk(PyDict(dict), e + 1)
                                   ELSE IF s[e] = ","
                                        THEN ParseMembers(s, SkipWs(s, e + 1), dict)
                                   ELSE JsonFail

\* i is where an element must start; acc holds the elements read so far
ParseElements(s, i, acc) ==
    LET x == ParseValue(s, i)
    IN  IF ~x.ok THEN JsonFail
        ELSE LET e == SkipWs(s, x.next)
                 list == Append(acc, x.val)
             IN  IF e > Len(s) THEN JsonFail
                 ELSE IF s[e] = "]" THEN JsonOk(PyList(list), e + 1)
                 ELSE IF s[e] = "," THEN ParseElements(s, SkipWs(s, e + 1), list)
                 ELSE JsonFail

ParseValue(s, i) ==
    IF i > Len(s) THEN JsonFail
    ELSE IF s[i] = "\"" THEN ParseString(s, i)
    ELSE IF s[i] \in Digits THEN ParseNumber(s, i)
    ELSE IF s[i] = "{"
         THEN LET j == SkipWs(s, i + 1)
              IN  IF j <= Len(s) /\ s[j] = "}" THEN JsonOk(PyDict(<< >>), j + 1)
                  ELSE ParseMembers(s, j, << >>)
    ELSE IF s[i] = "["
         THEN LET j == SkipWs(s, i + 1)
              IN  IF j <= Len(s) /\ s[j] = "]" THEN JsonOk(PyList(<< >>), j + 1)
                  ELSE ParseElements(s, j, << >>)
    ELSE IF i + 3 <= Len(s) /\ SubSeq(s, i, i + 3) = <<"n", "u", "l", "l">>
         THEN JsonOk(PyNone, i + 4)
    ELSE JsonFail

\* json.loads(s): ok is FALSE where Python raises json.JSONDecodeError
\* (no value, or extra data after the value)
JsonLoads(s) ==
    LET r == ParseValue(s, SkipWs(s, 1))
    IN  IF r.ok /\ SkipWs(s, r.next) = Len(s) + 1 THEN r ELSE JsonFail

(***************************************************************************)
(* extract_invoice_data                                                    *)
(***************************************************************************)
\* the character U+0060, which a TLA+ string literal cannot hold
Backtick == "BACKTICK"

\* "```json"
FenceJson == <<Backtick, Backtick, Backtick, "j", "s", "o", "n">>

\* "```"
Fence == <<Backtick, Backtick, Backtick>>

\* os.getenv("OPENROUTER_API_KEY"): None, "" or a key
KeyStates == {"absent", "empty", "set"}

\* `not OPENROUTER_API_KEY`
KeyMissing(key) == key \in {"absent", "empty"}

\* the leading "```json" is removed when the stripped text starts with it
StripLeadingFence(t) ==
    IF StartsWith(t, FenceJson) THEN ReplaceFirst(t, FenceJson, << >>) ELSE t

\* the trailing "```" is removed when the text ends with it
StripTrailingFenceUnguarded(t) == DropLast3(t)

StripTrailingFence(t) == IF EndsWith(t, Fence) THEN DropLast3(t) ELSE t

\* the text handed to json.loads
RepairResponse(text) == Strip(StripTrailingFence(StripLeadingFence(Strip(text))))

NoResponse == [returned |-> FALSE, text |-> << >>]
Returned(text) == [returned |-> TRUE, text |-> text]

\* what one call of extract_invoice_data does: the exception that leaves it
\* (raised), its return value, the st.error it shows, the text st.text shows,
\* the number of llm.complete calls, and the completion's text
Outcome(raised, ret, error, shown, calls, completion) ==
    [raised |-> raised, ret |-> ret, error |-> error, shown_text |-> shown,
     calls |-> calls, response |-> completion]

\* the except branch: st.error, st.text(response.text), return None
ParseFailureShowsStripped(text, response_text) ==
    Outcome("none", PyNone, "parse_error", Returned(response_text), 1, Returned(text))

ParseFailure(text, response_text) ==
    Outcome("none", PyNone, "parse_error", Returned(text), 1, Returned(text))

ParseResponse(text) ==
    LET response_text == StripTrailingFence(StripLeadingFence(Strip(text)))
        parsed == JsonLoads(Strip(response_text))
    IN  IF parsed.ok
        THEN Outcome("none", parsed.val, "none", NoResponse, 1, Returned(text))
        ELSE ParseFailure(text, response_text)

\* readable: PDFReader.load_data returns; key: the environment's API key;
\* llm_ok: llm.complete returns; text: the completion's text
ExtractInvoiceData(readable, key, llm_ok, text) ==
    IF ~readable
    THEN Outcome("reader", PyNone, "none", NoResponse, 0, NoResponse)
    ELSE IF KeyMissing(key)
    THEN Outcome("none", PyNone, "api_key_not_found", NoResponse, 0, NoResponse)
    ELSE IF ~llm_ok
    THEN Outcome("llm.complete", PyNone, "none", NoResponse, 1, NoResponse)
    ELSE ParseResponse(text)

\* a run of the script in which extract_invoice_data is not called
NotCalled == Outcome("none", PyNone, "none", NoResponse, 0, NoResponse)

(***************************************************************************)
(* The page below the "Process Invoice" button                             *)
(***************************************************************************)
K_invoice_id == <<"i", "n", "v", "o", "i", "c", "e", "_", "i", "d">>
K_date == <<"d", "a", "t", "e">>
K_line_items == <<"l", "i", "n", "e", "_", "i", "t", "e", "m", "s">>
K_item_name == <<"i", "t", "e", "m", "_", "n", "a", "m", "e">>
K_total_price == <<"t", "o", "t", "a", "l", "_", "p", "r", "i", "c", "e">>

\* the default 'N/A' of invoice_data.get
NotAvailable == PyStr(<<"N", "/", "A">>)

\* Python truth value (`if x:`)
Truthy(x) ==
    CASE x.t = "NoneType" -> FALSE
      [] x.t = "num" -> x.v # 0
      [] x.t = "str" -> Len(x.v) > 0
      [] x.t = "list" -> Len(x.v) > 0
      [] x.t = "dict" -> DOMAIN x.v # {}

\* dict.get(k, default)
DictGet(d, k, default) == IF k \in DOMAIN d.v THEN d.v[k] ELSE default

\* `i in list`
InList(i, q) == \E k \in 1..Len(q) : q[k] = i

\* list.remove(i): the first occurrence goes
RECURSIVE ListRemove(_, _)
ListRemove(q, i) ==
    IF q = << >> THEN q
    ELSE IF Head(q) = i THEN Tail(q)
    ELSE <<Head(q)>> \o ListRemove(Tail(q), i)

\* The state a checkbox keeps between runs belongs to the widget's identity.
\* Streamlit builds that identity either from the key alone or from the key
\* together with the widget's arguments (here `value`), depending on its
\* version; key_identity says which build runs the session.
WidgetId(p, i, value) ==
    IF key_identity THEN <<p, i, "key">>
    ELSE <<p, i, IF value THEN "value=True" ELSE "value=False">>

\* st.checkbox(key=f"p{p}_{i}", value=value): a widget with kept state returns
\* that state, a new one its `value`
Checkbox(w, p, i, value) ==
    LET id == WidgetId(p, i, value)
    IN  [id |-> id, checked |-> IF id \in DOMAIN w THEN w[id] ELSE value]

\* the update of one participant's list from its checkbox
UpdateItems(q, i, checked) ==
    IF checked /\ ~InList(i, q) THEN Append(q, i)
    ELSE IF ~checked /\ InList(i, q) THEN ListRemove(q, i)
    ELSE q

\* one table row: item is line_items[i]; acc is the state of the run so far
Row(w, i, item, acc) ==
    IF item.t # "dict" THEN [acc EXCEPT !.exception = "AttributeError"]
    ELSE LET price == DictGet(item, K_total_price, PyNum(0))
         IN  IF price.t # "num"
             THEN [acc EXCEPT !.exception =
                                IF price.t = "str" THEN "ValueError" ELSE "TypeError"]
             ELSE LET c1 == Checkbox(w, 1, i, InList(i, acc.person1_items))
                      c2 == Checkbox(w, 2, i, InList(i, acc.person2_items))
                  IN  [acc EXCEPT
                         !.person1_items = UpdateItems(@, i, c1.checked),
                         !.person2_items = UpdateItems(@, i, c2.checked),
                         !.rendered = (c1.id :> c1.checked) @@ (c2.id :> c2.checked) @@ @]

\* for i, item in enumerate(line_items): k is the 1-based position
RECURSIVE Rows(_, _, _, _)
Rows(w, items, k, acc) ==
    IF k > Len(items) \/ acc.exception # "none" THEN acc
    ELSE Rows(w, items, k + 1, Row(w, k - 1, items[k], acc))

\* sum(line_items[i]['total_price'] for i in q); ok is FALSE on a KeyError
RECURSIVE SumPrices(_, _)
SumPrices(items, q) ==
    IF q = << >> THEN [ok |-> TRUE, total |-> 0]
    ELSE LET item == items[Head(q) + 1]
             rest == SumPrices(items, Tail(q))
         IN  IF K_total_price \notin DOMAIN item.v \/ ~rest.ok
             THEN [ok |-> FALSE, total |-> 0]
             ELSE [ok |-> TRUE, total |-> item.v[K_total_price].v + rest.total]

\* the payment summary; the amounts the code halves are carried doubled
PaymentSummarySwapped(person1_total, person2_total) ==
    LET total_expense == person1_total + person2_total
    IN  IF person1_total > person2_total
        THEN [says |-> "person1 owes person2",
              amount_owed_x2 |-> 2 * person1_total - total_expense]
        ELSE IF person2_total > person1_total
        THEN [says |-> "person2 owes person1",
              amount_owed_x2 |-> 2 * person2_total - total_expense]
        ELSE [says |-> "perfectly split"]

PaymentSummary(person1_total, person2_total) ==
    LET total_expense == person1_total + person2_total
        split_amount_x2 == total_expense
    IN  IF person1_total > person2_total
        THEN [says |-> "person2 owes person1",
              amount_owed_x2 |-> 2 * person1_total - split_amount_x2]
        ELSE IF person2_total > person1_total
        THEN [says |-> "person1 owes person2",
              amount_owed_x2 |-> 2 * person2_total - split_amount_x2]
        ELSE [says |-> "perfectly split"]

\* 'line_items' in invoice_data and invoice_data['line_items']
HasLineItemsKeyOnly(invoice) == K_line_items \in DOMAIN invoice.v

HasLineItems(invoice) ==
    K_line_items \in DOMAIN invoice.v /\ Truthy(invoice.v[K_line_items])

\* the run's state when the page starts: nothing rendered, no exception
PageStart(p1, p2) ==
    [person1_items |-> p1, person2_items |-> p2, rendered |-> << >>,
     exception |-> "none", body |-> [kind |-> "nothing"]]

\* the item table, the totals and the payment summary
SplitPage(invoice, head, p1, p2, w) ==
    LET line_items == invoice.v[K_line_items]
    IN  IF line_items.t # "list"
        THEN [PageStart(p1, p2) EXCEPT
                !.exception = IF line_items.t = "num" THEN "TypeError"
                              ELSE "AttributeError"]
        ELSE LET acc == Rows(w, line_items.v, 1, PageStart(p1, p2))
                 t1 == SumPrices(line_items.v, acc.person1_items)
                 t2 == SumPrices(line_items.v, acc.person2_items)
             IN  IF acc.exception # "none" THEN acc
                 ELSE IF ~t1.ok \/ ~t2.ok THEN [acc EXCEPT !.exception = "KeyError"]
                 ELSE [acc EXCEPT !.body =
                         [kind |-> "split",
                          invoice_id |-> head.invoice_id, date |-> head.date,
                          person1_total |-> t1.total, person2_total |-> t2.total,
                          total_expense |-> t1.total + t2.total,
                          split_amount_x2 |-> t1.total + t2.total,
                          payment |-> PaymentSummary(t1.total, t2.total)]]

\* what the script shows for session_state.invoice_data, and what it does to
\* the two lists; w is the checkbox state the run starts with
Display(invoice, p1, p2, w) ==
    IF ~Truthy(invoice) THEN PageStart(p1, p2)
    ELSE IF invoice.t # "dict"
    THEN [PageStart(p1, p2) EXCEPT !.exception = "AttributeError"]
    ELSE LET head == [invoice_id |-> DictGet(invoice, K_invoice_id, NotAvailable),
                      date |-> DictGet(invoice, K_date, NotAvailable)]
         IN  IF HasLineItems(invoice)
             THEN SplitPage(invoice, head, p1, p2, w)
             ELSE [PageStart(p1, p2) EXCEPT !.body =
                     [kind |-> "no_line_items",
                      invoice_id |-> head.invoice_id, date |-> head.date]]

(***************************************************************************)
(* The completions the model draws from                                    *)
(***************************************************************************)
\* the largest number of line items of a drawn invoice
MaxItems == 2

Quoted(s) == <<"\"">> \o s \o <<"\"">>

DigitChar(d) ==
    CASE d = 0 -> "0" [] d = 1 -> "1" [] d = 2 -> "2" [] d = 3 -> "3"
      [] d = 4 -> "4" [] d = 5 -> "5" [] d = 6 -> "6" [] d = 7 -> "7"
      [] d = 8 -> "8" [] d = 9 -> "9"

RECURSIVE Numeral(_)
Numeral(n) ==
    IF n < 10 THEN <<DigitChar(n)>> ELSE Numeral(n \div 10) \o <<DigitChar(n % 10)>>

Member(k, valueText) == Quoted(k) \o <<":">> \o valueText

RECURSIVE Join(_)
Join(texts) ==
    IF texts = << >> THEN << >>
    ELSE IF Len(texts) = 1 THEN texts[1]
    ELSE texts[1] \o <<",">> \o Join(Tail(texts))

ObjectText(members) == <<"{">> \o Join(members) \o <<"}">>
ArrayText(elements) == <<"[">> \o Join(elements) \o <<"]">>

\* the prices of the two price lists the invoices are cut from
PriceLists == << <<100, 50, 50>>, <<50, 50, 100>> >>
PriceAt(c, k) == PriceLists[c][((k - 1) % 3) + 1]

ItemName(k) == <<"I", "t", "e", "m">> \o Numeral(k)

\* item k of price list c; priced says whether it carries total_price
ItemText(c, k, priced) ==
    ObjectText(<<Member(K_item_name, Quoted(ItemName(k)))>>
               \o IF priced THEN <<Member(K_total_price, Numeral(PriceAt(c, k)))>>
                  ELSE << >>)

IdText == Quoted(<<"1", "2", "3">>)
DateText == Quoted(<<"2", "0", "2", "4", "-", "0", "1", "-", "0", "5">>)

\* the invoice with the first n items of price list c; lastPriced says
\* whether its last item carries total_price
InvoiceText(c, n, lastPriced) ==
    ObjectText(<<Member(K_invoice_id, IdText), Member(K_date, DateText),
                 Member(K_line_items,
                        ArrayText([k \in 1..n |-> ItemText(c, k, k < n \/ lastPriced)]))>>)

\* JSON texts of the Invoice shape, every item priced
ShapedInvoiceTexts ==
    {InvoiceText(1, 0, TRUE)}
    \cup {InvoiceText(c, n, TRUE) : c \in 1..2, n \in 1..MaxItems}

\* JSON texts that lack fields, or are no object
PartialTexts ==
    {InvoiceText(1, n, FALSE) : n \in 1..MaxItems}
    \cup {ObjectText(<< >>),
          ObjectText(<<Member(K_line_items, ArrayText(<<ItemText(1, 1, TRUE)>>))>>),
          ObjectText(<<Member(K_invoice_id, IdText), Member(K_date, DateText)>>),
          ObjectText(<<Member(K_invoice_id, Quoted(FenceJson)),
                       Member(K_line_items, ArrayText(<< >>))>>),
          ArrayText(<<Numeral(100)>>),
          <<"n", "u", "l", "l">>}

JsonTexts == ShapedInvoiceTexts \cup PartialTexts

\* the ways a completion wraps its JSON
Wraps == {"bare", "whitespace", "fenced", "fenced in whitespace"}

Wrap(how, j) ==
    CASE how = "bare" -> j
      [] how = "whitespace" -> <<" ", "\n">> \o j \o <<"\n", " ">>
      [] how = "fenced" -> FenceJson \o <<"\n">> \o j \o <<"\n">> \o Fence
      [] how = "fenced in whitespace" ->
           <<"\n">> \o FenceJson \o <<"\n">> \o j \o <<"\n">> \o Fence \o <<" ", "\n">>

Prose == <<"S", "o", "r", "r", "y", ",", " ", "n", "o", " ", "i", "n", "v", "o", "i", "c", "e">>

\* completions that are no JSON after the stripping
MalformedTexts ==
    {Prose, << >>,
     Fence \o <<"\n">> \o InvoiceText(1, 1, TRUE) \o <<"\n">> \o Fence,
     InvoiceText(1, 1, TRUE) \o <<"\n">> \o Prose,
     FenceJson \o <<"\n">> \o Prose \o <<"\n">> \o Fence,
     <<"{">> \o Member(K_invoice_id, IdText)}

Responses ==
    {Wrap(how, j) : how \in Wraps, j \in JsonTexts} \cup MalformedTexts

\* what one click of "Process Invoice" meets: the reader, the completion call
Attempts ==
    {[readable |-> FALSE, llm_ok |-> FALSE, text |-> << >>],
     [readable |-> TRUE, llm_ok |-> FALSE, text |-> << >>]}
    \cup {[readable |-> TRUE, llm_ok |-> TRUE, text |-> r] : r \in Responses}

(***************************************************************************)
(* The session                                                             *)
(***************************************************************************)
vars ==
    <<key_identity, api_key, uploaded_file, invoice_data, person1_items,
      person2_items, widgets, screen, complete_calls, response, main>>

NotRun == [outcome |-> "not run", key |-> "absent", calls |-> 0]

Init ==
    /\ key_identity \in BOOLEAN
    /\ api_key \in KeyStates
    /\ uploaded_file = FALSE
    /\ invoice_data = PyNone
    /\ person1_items = << >>
    /\ person2_items = << >>
    /\ widgets = << >>
    /\ screen = [error |-> "none", shown_text |-> NoResponse, exception |-> "none",
                 body |-> [kind |-> "nothing"]]
    /\ complete_calls = 0
    /\ response = NoResponse
    /\ main = NotRun

\* load_dotenv(): a variable the environment lacks may come from the .env file
LoadDotenv(key) == IF key = "absent" THEN KeyStates ELSE {key}

\* what a click of "Process Invoice" gets from extract_invoice_data, by API key
Extractions ==
    [key \in KeyStates |->
        {ExtractInvoiceData(a.readable, key, a.llm_ok, a.text) : a \in Attempts}]

\* One run of the script. clicked: the run was started by "Process Invoice";
\* w: the checkbox state the browser sent; x: what extract_invoice_data did
\* (NotCalled without a click).
\* An uncaught exception ends the run where it is raised: the session state
\* written before it stays. Streamlit keeps the state of the checkboxes the
\* run rendered and drops the others.
ScriptRun(clicked, w, key, x) ==
    /\ api_key' = key
    /\ complete_calls' = x.calls
    /\ response' = x.response
    /\ IF x.raised # "none"
       THEN /\ UNCHANGED <<invoice_data, person1_items, person2_items>>
            /\ widgets' = << >>
            /\ screen' = [error |-> "none", shown_text |-> NoResponse,
                          exception |-> x.raised, body |-> [kind |-> "nothing"]]
       ELSE \E d \in {IF clicked THEN Display(x.ret, << >>, << >>, w)
                      ELSE Display(invoice_data, person1_items, person2_items, w)} :
               /\ invoice_data' = IF clicked THEN x.ret ELSE invoice_data
               /\ person1_items' = d.person1_items
               /\ person2_items' = d.person2_items
               /\ widgets' = d.rendered
               /\ screen' = [error |-> x.error, shown_text |-> x.shown_text,
                             exception |-> d.exception, body |-> d.body]

\* a file is put into the uploader
UploadFile ==
    /\ ~uploaded_file
    /\ main = NotRun
    /\ uploaded_file' = TRUE
    /\ \E key \in LoadDotenv(api_key) : ScriptRun(FALSE, widgets, key, NotCalled)
    /\ UNCHANGED <<key_identity, main>>

\* a run no checkbox and no button started: a name is edited, the file replaced
Rerun ==
    /\ uploaded_file
    /\ \E key \in LoadDotenv(api_key) : ScriptRun(FALSE, widgets, key, NotCalled)
    /\ UNCHANGED <<key_identity, uploaded_file, main>>

\* "Process Invoice" is clicked
ProcessInvoice ==
    /\ uploaded_file
    /\ \E key \in LoadDotenv(api_key) :
          \E x \in Extractions[key] : ScriptRun(TRUE, widgets, key, x)
    /\ UNCHANGED <<key_identity, uploaded_file, main>>

\* a checkbox on the page is clicked
Toggle ==
    /\ \E id \in DOMAIN widgets, key \in LoadDotenv(api_key) :
          ScriptRun(FALSE, [widgets EXCEPT ![id] = ~@], key, NotCalled)
    /\ UNCHANGED <<key_identity, uploaded_file, main>>

(***************************************************************************)
(* main.py                                                                 *)
(***************************************************************************)
\* The script from top to bottom. key: the environment's API key; readable:
\* the PDF loads; constructed: OpenRouter(api_key=...) returns (the library
\* may refuse a key of None); llm_ok: llm.complete returns.
MainScript(key, readable, constructed, llm_ok) ==
    IF ~readable THEN [outcome |-> "reader raised", key |-> key, calls |-> 0]
    ELSE IF ~constructed THEN [outcome |-> "OpenRouter raised", key |-> key, calls |-> 0]
    ELSE IF ~llm_ok THEN [outcome |-> "llm.complete raised", key |-> key, calls |-> 1]
    ELSE [outcome |-> "printed", key |-> key, calls |-> 1]

\* main.py is a program of its own and shares nothing with the session: a
\* behaviour runs either the app or main.py
RunMain ==
    /\ ~uploaded_file
    /\ \E key \in KeyStates, readable \in BOOLEAN, constructed \in BOOLEAN,
          llm_ok \in BOOLEAN :
          /\ (~constructed => key = "absent")
          /\ main' = MainScript(key, readable, constructed, llm_ok)
    /\ UNCHANGED <<key_identity, api_key, uploaded_file, invoice_data, person1_items,
                   person2_items, widgets, screen, complete_calls, response>>

Next == UploadFile \/ Rerun \/ ProcessInvoice \/ Toggle \/ RunMain

Spec == Init /\ [][Next]_vars

(***************************************************************************)
(* Claims                                                                  *)
(***************************************************************************)
\* the latest run was a processing attempt whose completion parsed
Parsed == response.returned /\ screen.error = "none"

\* the uncaught exceptions the page itself raises
PageExceptions == {"AttributeError", "KeyError", "TypeError", "ValueError"}

RECURSIVE SumOfPrices(_)
SumOfPrices(items) ==
    IF items = << >> THEN 0
    ELSE Head(items).v[K_total_price].v + SumOfPrices(Tail(items))

\* the prices of the items that are in neither list
RECURSIVE UnassignedTotal(_, _)
UnassignedTotal(items, k) ==
    IF k > Len(items) THEN 0
    ELSE (IF InList(k - 1, person1_items) \/ InList(k - 1, person2_items) THEN 0
          ELSE items[k].v[K_total_price].v)
         + UnassignedTotal(items, k + 1)

AllPriced(items) ==
    \A k \in 1..Len(items) : K_total_price \in DOMAIN items[k].v

\* C1: after any sequence of checkbox clicks no item index is in both
\* person1_items and person2_items.
C1_MutualExclusivity ==
    \A i \in 0..MaxItems :
        ~(InList(i, person1_items) /\ InList(i, person2_items))

\* C2: on every page that shows the totals, person1_total + person2_total +
\* the prices of the unassigned items is the sum of all the items' prices.
C2_Conservation ==
    (screen.body.kind = "split" /\ AllPriced(invoice_data.v[K_line_items].v)) =>
        screen.body.person1_total + screen.body.person2_total
          + UnassignedTotal(invoice_data.v[K_line_items].v, 1)
        = SumOfPrices(invoice_data.v[K_line_items].v)

\* C3: the payment summary names as payer the participant with the smaller
\* total, the amount is |total1 - total2| / 2, equal totals report neither a
\* payer nor an amount, and swapping the totals swaps the payer and keeps
\* the amount.
C3_Settlement ==
    screen.body.kind = "split" =>
        LET a == screen.body.person1_total
            b == screen.body.person2_total
            pay == screen.body.payment
            swapped == PaymentSummary(b, a)
        IN  /\ a > b => /\ pay.says = "person2 owes person1"
                        /\ pay.amount_owed_x2 = a - b
                        /\ swapped.says = "person1 owes person2"
                        /\ swapped.amount_owed_x2 = pay.amount_owed_x2
            /\ b > a => /\ pay.says = "person1 owes person2"
                        /\ pay.amount_owed_x2 = b - a
                        /\ swapped.says = "person2 owes person1"
                        /\ swapped.amount_owed_x2 = pay.amount_owed_x2
            /\ a = b => /\ pay.says = "perfectly split"
                        /\ DOMAIN pay = {"says"}
                        /\ DOMAIN swapped = {"says"}

\* item 0 (100) with participant 1, item 1 (50) with participant 2:
\* participant 2 owes 25
C3_Witness ==
    /\ screen.body.kind = "split"
    /\ person1_items = <<0>>
    /\ person2_items = <<1>>
    /\ screen.body.person1_total = 100
    /\ screen.body.person2_total = 50
    /\ screen.body.payment.says = "person2 owes person1"
    /\ screen.body.payment.amount_owed_x2 = 50

\* C4: when "Process Invoice" has produced an invoice, both lists are empty
\* and the totals shown with it are zero: nothing assigned on the previous
\* invoice carries over.
C4_AllocationReset ==
    Parsed =>
        /\ person1_items = << >>
        /\ person2_items = << >>
        /\ screen.body.kind = "split" =>
              /\ screen.body.person1_total = 0
              /\ screen.body.person2_total = 0

\* the latest run was a processing attempt that ended in an extraction error
AttemptFailed ==
    \/ screen.exception \in {"reader", "llm.complete"}
    \/ screen.error \in {"api_key_not_found", "parse_error"}

\* C5: a processing attempt that ends in an extraction error leaves no
\* invoice in invoice_data and both lists empty.
C5_FailedAttemptClears ==
    AttemptFailed =>
        /\ ~Truthy(invoice_data)
        /\ person1_items = << >>
        /\ person2_items = << >>

\* C6: with the API key absent or empty, no path that gets as far as the
\* completion capability calls llm.complete, and a missing-credential error
\* is reported.
C6_MissingCredentialFailsFast ==
    /\ (KeyMissing(api_key) /\ screen.error # "none") =>
          /\ screen.error = "api_key_not_found"
          /\ complete_calls = 0
    /\ KeyMissing(api_key) => complete_calls = 0
    /\ (KeyMissing(main.key) /\ main.outcome \notin {"not run", "reader raised"}) =>
          main.calls = 0

\* C7: a completion that is no JSON after the stripping costs exactly one
\* llm.complete call, shows the parse error with the completion's own text,
\* produces no invoice and raises nothing.
C7_MalformedResponse ==
    (response.returned /\ ~JsonLoads(RepairResponse(response.text)).ok) =>
        /\ complete_calls = 1
        /\ screen.error = "parse_error"
        /\ screen.shown_text = Returned(response.text)
        /\ screen.exception = "none"
        /\ invoice_data = PyNone
        /\ person1_items = << >>
        /\ person2_items = << >>

\* prose inside a fence: the text shown is the completion as it came
C7_Witness ==
    /\ response = Returned(FenceJson \o <<"\n">> \o Prose \o <<"\n">> \o Fence)
    /\ screen.error = "parse_error"
    /\ screen.shown_text = response
    /\ complete_calls = 1
    /\ invoice_data = PyNone

\* C8: a JSON text, bare, in whitespace, in a ```json fence, or in a fence
\* in whitespace, is stripped back to itself and yields the record that
\* json.loads gives for the bare text.
C8_RepairIdempotent ==
    response.returned =>
        \A how \in Wraps, j \in JsonTexts :
            response.text = Wrap(how, j) =>
                /\ RepairResponse(response.text) = j
                /\ JsonLoads(j).ok
                /\ screen.error = "none"
                /\ invoice_data = JsonLoads(j).val

\* the two-item invoice in a ```json fence
C8_Witness ==
    /\ response = Returned(Wrap("fenced", InvoiceText(1, 2, TRUE)))
    /\ invoice_data.t = "dict"
    /\ invoice_data.v[K_invoice_id] = PyStr(<<"1", "2", "3">>)
    /\ Len(invoice_data.v[K_line_items].v) = 2
    /\ invoice_data.v[K_line_items].v[1].v[K_total_price] = PyNum(100)
    /\ invoice_data.v[K_line_items].v[2].v[K_total_price] = PyNum(50)

\* C9: for a completion that parsed, showing the record and clicking
\* checkboxes raises no uncaught exception.
C9_NoHardFailure == screen.exception \notin PageExceptions

\* invoice_data is a record whose line_items is the empty list, and the
\* latest run got as far as the page
EmptyInvoice ==
    /\ screen.exception \notin {"reader", "llm.complete"}
    /\ invoice_data.t = "dict"
    /\ K_line_items \in DOMAIN invoice_data.v
    /\ invoice_data.v[K_line_items] = PyList(<< >>)

====
